---- MODULE Spec2Model ----
(***************************************************************************)
(* The result store of device_scanner (ResultManager): a flat directory of *)
(* JSON files, one per saved scan result.  Strings are sequences of        *)
(* one-character strings, so that slicing, substring search, suffix tests  *)
(* and lexicographic sorting are computed as Python computes them.         *)
(***************************************************************************)
EXTENDS Integers, Sequences, FiniteSets, TLC

VARIABLES files, outside, clock, issued, nsaves, ret, present, calls

vars == <<files, outside, clock, issued, nsaves, ret, present, calls>>

(***************************************************************************)
(* Bounds of the model                                                     *)
(***************************************************************************)
\* number of save_result calls explored
MaxSaves == 2
\* seconds that pass while the store is used
MaxClock == 1

(***************************************************************************)
(* Strings                                                                 *)
(***************************************************************************)
\* the characters that occur, in code point order
Alphabet ==
    << "-", ".", "/", "0", "1", "2", "3", "4", "5", "6", "7", "8", "9", ":",
       "T", "_", "a", "b", "c", "d", "e", "f", "i", "j", "n", "o", "s", "t", "v", "x" >>

Ord(c) == CHOOSE i \in 1..Len(Alphabet) : Alphabet[i] = c

Min(a, b) == IF a <= b THEN a ELSE b

\* Python's str comparison a < b
StrLess(a, b) ==
    \E i \in 1..(Min(Len(a), Len(b)) + 1) :
        /\ \A j \in 1..(i - 1) : a[j] = b[j]
        /\ \/ i > Len(a) /\ i <= Len(b)
           \/ i <= Len(a) /\ i <= Len(b) /\ Ord(a[i]) < Ord(b[i])

\* Python's `sub in s`
Contains(sub, s) ==
    \E i \in 0..(Len(s) - Len(sub)) : SubSeq(s, i + 1, i + Len(sub)) = sub

\* Python's s.endswith(suf)
EndsWith(s, suf) ==
    /\ Len(suf) <= Len(s)
    /\ SubSeq(s, Len(s) - Len(suf) + 1, Len(s)) = suf

JsonExt == << ".", "j", "s", "o", "n" >>

\* the length of the id prefix used in filenames and in searches
PrefixLen == 8

\* Python's s[:8]
Slice8(s) == SubSeq(s, 1, Min(Len(s), PrefixLen))

\* sorted(names), without reverse=True
RECURSIVE SortedAsc(_)
SortedAsc(S) ==
    IF S = {} THEN << >>
    ELSE LET m == CHOOSE x \in S : \A y \in S \ {x} : StrLess(x, y)
         IN  << m >> \o SortedAsc(S \ {m})

\* sorted(names, reverse=True)
RECURSIVE SortedDesc(_)
SortedDesc(S) ==
    IF S = {} THEN << >>
    ELSE LET m == CHOOSE x \in S : \A y \in S \ {x} : StrLess(y, x)
         IN  << m >> \o SortedDesc(S \ {m})

\* the orders in which os.listdir may enumerate the names of S
RECURSIVE Orders(_)
Orders(S) ==
    IF S = {} THEN { << >> }
    ELSE UNION { { << x >> \o o : o \in Orders(S \ {x}) } : x \in S }

(***************************************************************************)
(* Time: datetime.now() and its two formats                                *)
(***************************************************************************)
DigitChars == << "0", "1", "2", "3", "4", "5", "6", "7", "8", "9" >>

D2(n) == << DigitChars[(n \div 10) + 1], DigitChars[(n % 10) + 1] >>

\* the wall clock at model time 0 is 2026-11-05 12:59:59
BaseDate == << "2", "0", "2", "6", "1", "1", "0", "5" >>
BaseSecond == (12 * 3600) + (59 * 60) + 59

SecondOfDay(t) == BaseSecond + t

HH(t) == D2(SecondOfDay(t) \div 3600)
MM(t) == D2((SecondOfDay(t) % 3600) \div 60)
SS(t) == D2(SecondOfDay(t) % 60)

\* datetime.now().strftime("%Y%m%d_%H%M%S")
Strftime(t) == BaseDate \o << "_" >> \o HH(t) \o MM(t) \o SS(t)

\* datetime.now().isoformat(), without the microseconds
IsoFormat(t) ==
    SubSeq(BaseDate, 1, 4) \o << "-" >> \o SubSeq(BaseDate, 5, 6) \o << "-" >>
    \o SubSeq(BaseDate, 7, 8) \o << "T" >> \o HH(t) \o << ":" >> \o MM(t)
    \o << ":" >> \o SS(t)

(***************************************************************************)
(* Scan data and its JSON form.  A Python value is [ty, n, kids]: ty its   *)
(* type, n its content (an int's value, the length of a str, of a list, of *)
(* a tuple, or of the str() of another object), kids a dict's entries.  A  *)
(* dict key is <<type, text>>.                                             *)
(***************************************************************************)
Leaf(ty, n) == [ty |-> ty, n |-> n, kids |-> << >>]

\* Python's None, JSON's null
None == Leaf("none", 0)

Dict(kids) == [ty |-> "dict", n |-> 0, kids |-> kids]

\* json.dump writes a key of type int as its decimal text
JsonKey(k) == << "str", k[2] >>

\* what json.load reads back from what json.dump(..., default=str) wrote
RECURSIVE ToJson(_)
ToJson(v) ==
    CASE v.ty = "tuple" -> Leaf("list", v.n)
      [] v.ty = "obj"   -> Leaf("str", v.n)
      [] v.ty = "dict"  ->
            Dict([k2 \in { JsonKey(k) : k \in DOMAIN v.kids } |->
                    ToJson(v.kids[CHOOSE k \in DOMAIN v.kids : JsonKey(k) = k2])])
      [] OTHER          -> v

\* json.dump raises TypeError on a dict key that is not str, int, float, bool or None
RECURSIVE Serializable(_)
Serializable(v) ==
    \A k \in DOMAIN v.kids : k[1] \in {"str", "int"} /\ Serializable(v.kids[k])

RECURSIVE SumOver(_, _)
SumOver(f, S) ==
    IF S = {} THEN 0
    ELSE LET x == CHOOSE y \in S : TRUE IN f[x] + SumOver(f, S \ {x})

\* the length of the JSON text of a value
RECURSIVE EncLen(_)
EncLen(v) ==
    CASE v.ty = "int"  -> IF v.n < 10 THEN 1 ELSE 2
      [] v.ty = "str"  -> v.n + 2
      [] v.ty = "list" -> 2 + (3 * v.n)
      [] v.ty = "dict" ->
            2 + SumOver([k \in DOMAIN v.kids |-> Len(k[2]) + 6 + EncLen(v.kids[k])],
                        DOMAIN v.kids)
      [] OTHER         -> 0

\* the scan data the callers pass
PayloadNative == Dict(<< "str", "cpu" >> :> Dict(<< "str", "percent" >> :> Leaf("int", 12)))

PayloadTuple ==
    Dict((<< "str", "load" >> :> Leaf("tuple", 3)) @@ (<< "str", "log" >> :> Leaf("str", 5200)))

PayloadBadKey == Dict(<< "tuple", "k" >> :> Leaf("int", 1))

Payloads == { PayloadNative, PayloadTuple, PayloadBadKey }

(***************************************************************************)
(* Files.  A file's content is what json.load makes of it: ok is FALSE for *)
(* a file that does not parse; size is its length in bytes.                *)
(***************************************************************************)
\* result_data of save_result, as stored
ResultData(test_id, test_name, timestamp, scan_data, filename) ==
    [ ok        |-> TRUE,
      test_id   |-> test_id,
      test_name |-> test_name,
      timestamp |-> timestamp,
      scan_data |-> ToJson(scan_data),
      filename  |-> filename,
      size      |-> 92 + Len(test_id) + Len(test_name) + Len(timestamp) + 7
                    + EncLen(ToJson(scan_data)) + Len(filename) ]

\* what json.dump leaves behind when it raises inside scan_data
Truncated(test_id, test_name, timestamp) ==
    [ ok        |-> FALSE,
      test_id   |-> << >>,
      test_name |-> << >>,
      timestamp |-> << >>,
      scan_data |-> Dict(<< >>),
      filename  |-> << >>,
      size      |-> 73 + Len(test_id) + Len(test_name) + Len(timestamp) + 7 ]

NoData == Truncated(<< >>, << >>, << >>)

(***************************************************************************)
(* Identifiers and names                                                   *)
(***************************************************************************)
\* str(uuid.uuid4()): eight hex digits, a hyphen, and the rest of the UUID,
\* which is written here as one character
Uuid(prefix, rest) == prefix \o << "-" >> \o rest

\* hex digits that also read as a date
UuidA1 == Uuid(BaseDate, << "1" >>)
\* shares its first eight characters with UuidA1
UuidA2 == Uuid(BaseDate, << "2" >>)
UuidB == Uuid(<< "d", "e", "a", "d", "b", "e", "e", "f" >>, << "3" >>)

UuidUniverse == { UuidA1, UuidA2, UuidB }

\* values callers pass as save_result's test_id argument
ShortId == << "d", "e" >>
CustomIds == { UuidB, ShortId }

\* the default test_name
NameDefault == << "d", "e", "v", "i", "c", "e", "_", "s", "c", "a", "n" >>
\* a test_name with a path separator
NameUp == << ".", ".", "/", "x" >>
Names == { NameDefault, NameUp }

Nonexistent == << "n", "o", "n", "e", "x", "i", "s", "t", "e", "n", "t" >>

\* values callers pass as result_id
Identifiers ==
    UuidUniverse \cup { Slice8(u) : u \in UuidUniverse } \cup { ShortId, Nonexistent }

\* limit is None (<< >>) or an int (<< k >>)
Limits == { << >>, << 0 >>, << 1 >>, << 2 >>, << 3 >> }

(***************************************************************************)
(* Paths: os.path.join(self.results_dir, filename) and what open() does    *)
(* with it.  The results directory has no subdirectories; its parent       *)
(* exists.                                                                 *)
(***************************************************************************)
ResultsDirName == << "r", "e", "s", "u", "l", "t", "s" >>

LastSlash(s) ==
    IF \E i \in 1..Len(s) : s[i] = "/"
    THEN CHOOSE i \in 1..Len(s) : s[i] = "/" /\ \A j \in (i + 1)..Len(s) : s[j] # "/"
    ELSE 0

BaseName(s) == SubSeq(s, LastSlash(s) + 1, Len(s))

FirstSlash(s) == CHOOSE i \in 1..Len(s) : s[i] = "/" /\ \A j \in 1..(i - 1) : s[j] # "/"

\* the directory a relative path leads to: "results", "parent" (outside the
\* results directory) or "missing" (no such directory: open raises)
RECURSIVE WalkDirs(_, _)
WalkDirs(where, s) ==
    IF LastSlash(s) = 0 THEN where
    ELSE LET comp == SubSeq(s, 1, FirstSlash(s) - 1)
             rest == SubSeq(s, FirstSlash(s) + 1, Len(s))
             next == CASE where = "missing" -> "missing"
                       [] comp \in { << >>, << "." >> } -> where
                       [] comp = << ".", "." >> -> "parent"
                       [] where = "parent" /\ comp = ResultsDirName -> "results"
                       [] OTHER -> "missing"
         IN  WalkDirs(next, rest)

OpenDir(filename) == WalkDirs("results", filename)

(***************************************************************************)
(* The operations of ResultManager, as functions of the directory          *)
(***************************************************************************)
\* what an operation returned, and the call that returned it; raised tells that
\* the call ended with an exception instead of a return value; code is the HTTP
\* status of a route's response (0: not a route); sent is the request that
\* RemoteClient._request gave to the requests library, fault what came of it;
\* for a call that ran step by step, caller is its thread, seen the names its
\* os.listdir returned, and lost tells that one of them was gone when the call
\* came to open it
NoRet ==
    [ op |-> "none", arg |-> << >>, given |-> FALSE, scan_data |-> Dict(<< >>),
      limit |-> << >>, status |-> "", message |-> "", test_id |-> << >>,
      filename |-> << >>, data |-> NoData, count |-> 0, results |-> << >>,
      total_results |-> 0, total_size_mb |-> 0, test_name |-> << >>,
      timestamp |-> << >>, summary |-> None, raised |-> FALSE, code |-> 0,
      sent |-> << >>, fault |-> "", caller |-> "", seen |-> {}, lost |-> FALSE ]

\* an exception leaves the function: there is no return value
Raised(op, arg) == [NoRet EXCEPT !.op = op, !.arg = arg, !.raised = TRUE]

\* result_id[:8] if len(result_id) >= 8 else result_id
SearchId(result_id) ==
    IF Len(result_id) >= PrefixLen THEN Slice8(result_id) ELSE result_id

\* search_id in filename and filename.endswith('.json')
Matches(result_id, filename) ==
    Contains(SearchId(result_id), filename) /\ EndsWith(filename, JsonExt)

\* len(result_id) > 8 and data.get("test_id") != result_id
WrongFullId(result_id, data) ==
    Len(result_id) > PrefixLen /\ data.test_id # result_id

\* the loop of load_result over os.listdir's enumeration
RECURSIVE LoadLoop(_, _, _, _)
LoadLoop(dir, order, i, result_id) ==
    IF i > Len(order)
    THEN [status |-> "error", message |-> "notfound", data |-> NoData]
    ELSE LET filename == order[i] IN
         IF Matches(result_id, filename)
         THEN IF ~dir[filename].ok
              THEN [status |-> "error", message |-> "exception", data |-> NoData]
              ELSE IF WrongFullId(result_id, dir[filename])
                   THEN LoadLoop(dir, order, i + 1, result_id)
                   ELSE [status |-> "", message |-> "", data |-> dir[filename]]
         ELSE LoadLoop(dir, order, i + 1, result_id)

LoadResult(dir, order, result_id) == LoadLoop(dir, order, 1, result_id)

\* the entry list_results makes of a record
Summary(data) ==
    [ test_id |-> data.test_id, test_name |-> data.test_name,
      timestamp |-> data.timestamp, filename |-> data.filename ]

\* `limit and len(results) >= limit`
LimitReached(limit, results) ==
    limit # << >> /\ limit[1] # 0 /\ Len(results) >= limit[1]

\* the loop of list_results over the sorted names
RECURSIVE ListLoop(_, _, _, _, _)
ListLoop(dir, sorted, i, results, limit) ==
    IF i > Len(sorted) THEN results
    ELSE LET filename == sorted[i] IN
         IF EndsWith(filename, JsonExt)
         THEN LET results2 == IF dir[filename].ok
                              THEN Append(results, Summary(dir[filename]))
                              ELSE results
              IN  IF LimitReached(limit, results2)
                  THEN results2
                  ELSE ListLoop(dir, sorted, i + 1, results2, limit)
         ELSE ListLoop(dir, sorted, i + 1, results, limit)

ListResults(dir, limit) == ListLoop(dir, SortedDesc(DOMAIN dir), 1, << >>, limit)

\* the loop of delete_result: the name of the file it removes, << >> if none
RECURSIVE DeleteLoop(_, _, _, _)
DeleteLoop(dir, order, i, result_id) ==
    IF i > Len(order) THEN << >>
    ELSE LET filename == order[i] IN
         IF Matches(result_id, filename)
         THEN IF dir[filename].ok /\ WrongFullId(result_id, dir[filename])
              THEN DeleteLoop(dir, order, i + 1, result_id)
              ELSE << filename >>
         ELSE DeleteLoop(dir, order, i + 1, result_id)

DeleteTarget(dir, order, result_id) == DeleteLoop(dir, order, 1, result_id)

\* [f for f in files if f.endswith('.json')]
JsonFiles(dir) == { f \in DOMAIN dir : EndsWith(f, JsonExt) }

\* the sum of os.path.getsize over the .json files
TotalSize(dir) == SumOver([f \in DOMAIN dir |-> dir[f].size], JsonFiles(dir))

\* the conversion with the hundredths cut off instead of rounded
RoundMbFloor(total_size) == (total_size * 100) \div (1024 * 1024)

\* round(total_size / (1024 * 1024), 2), in hundredths
RoundMb(total_size) ==
    LET num == total_size * 100
        den == 1024 * 1024
        q   == num \div den
        r2  == 2 * (num % den)
    IN  IF r2 > den \/ (r2 = den /\ q % 2 = 1) THEN q + 1 ELSE q

\* dict.get(key, default) on a value read from JSON
Get(v, key, default) ==
    IF << "str", key >> \in DOMAIN v.kids THEN v.kids[<< "str", key >>] ELSE default

EmptyDict == Dict(<< >>)

IsDict(v) == v.ty = "dict"

\* scan_data.get("disk", {})
Disks(scan_data) == Get(scan_data, "disk", EmptyDict)

\* get_result_summary raises AttributeError at .get or .values() of a value
\* that is not a dict, and TypeError when sum() adds a value that is no number
SummaryRaises(scan_data) ==
    \/ ~IsDict(scan_data)
    \/ ~IsDict(Get(scan_data, "cpu", EmptyDict))
    \/ ~IsDict(Get(scan_data, "memory", EmptyDict))
    \/ ~IsDict(Disks(scan_data))
    \/ \E k \in DOMAIN Disks(scan_data).kids :
          \/ ~IsDict(Disks(scan_data).kids[k])
          \/ Get(Disks(scan_data).kids[k], "total_gb", Leaf("int", 0)).ty # "int"

\* the sum with disk.get("total_gb", 1): a volume without a total counts as 1
DiskTotalDefaultOne(scan_data) ==
    SumOver([k \in DOMAIN Disks(scan_data).kids |->
                Get(Disks(scan_data).kids[k], "total_gb", Leaf("int", 1)).n],
            DOMAIN Disks(scan_data).kids)

\* sum(disk.get("total_gb", 0) for disk in scan_data.get("disk", {}).values())
DiskTotal(scan_data) ==
    SumOver([k \in DOMAIN Disks(scan_data).kids |->
                Get(Disks(scan_data).kids[k], "total_gb", Leaf("int", 0)).n],
            DOMAIN Disks(scan_data).kids)

\* the "summary" entry of get_result_summary
ResultSummary(scan_data) ==
    LET cpu == Get(scan_data, "cpu", EmptyDict)
        memory == Get(scan_data, "memory", EmptyDict)
    IN  Dict(
          (<< "str", "system" >> :> Get(scan_data, "system", EmptyDict))
          @@ (<< "str", "cpu" >> :> Dict(
                (<< "str", "physical_cores" >> :> Get(cpu, "physical_cores", None))
                @@ (<< "str", "logical_cores" >> :> Get(cpu, "logical_cores", None))
                @@ (<< "str", "cpu_percent" >> :> Get(cpu, "cpu_percent", None))))
          @@ (<< "str", "memory" >> :> Dict(
                (<< "str", "total_gb" >> :> Get(memory, "total_gb", None))
                @@ (<< "str", "used_gb" >> :> Get(memory, "used_gb", None))
                @@ (<< "str", "percent" >> :> Get(memory, "percent", None))))
          @@ (<< "str", "disk" >> :> Dict(
                << "str", "total_gb" >> :> Leaf("int", DiskTotal(scan_data)))))

(***************************************************************************)
(* The state: the results directory (name -> content), the files written   *)
(* outside it, the wall clock, the ids in use, the last call, and whether  *)
(* the results directory (still) exists.  calls holds, for each thread that *)
(* uses the store, the call it is in the middle of.                        *)
(***************************************************************************)
\* the threads that call the store while another call is under way
Callers == { "t1", "t2" }

\* a call under way: the names os.listdir returned, the index of the loop,
\* the entries collected, and what the call has opened so far; for a
\* save_result, the text it is about to write (data) and the value it will
\* return (out)
Idle ==
    [ op |-> "idle", arg |-> << >>, limit |-> << >>, order |-> << >>, i |-> 0,
      results |-> << >>, phase |-> "", lost |-> FALSE, data |-> NoData,
      out |-> NoRet ]

Init ==
    /\ calls = [c \in Callers |-> Idle]
    /\ present = TRUE
    /\ files = << >>
    /\ outside = << >>
    /\ clock = 0
    /\ issued = {}
    /\ nsaves = 0
    /\ ret = NoRet

\* f"{test_name}_{timestamp}_{test_id[:8]}.json"
ResultFilename(test_name, timestamp, test_id) ==
    test_name \o << "_" >> \o timestamp \o << "_" >> \o Slice8(test_id) \o JsonExt

\* a removal that takes every file of the directory along
RemoveAll(dir, name) == [f \in {} |-> dir[f]]

\* dir without the file name
Remove(dir, name) == [f \in DOMAIN dir \ {name} |-> dir[f]]

\* save_result succeeds: open() found the directory and json.dump wrote the data
SaveOk(scan_data, test_name, test_id) ==
    /\ present
    /\ OpenDir(ResultFilename(test_name, Strftime(clock), test_id)) # "missing"
    /\ Serializable(scan_data)

\* what save_result does to the file system; now2 is the clock's second reading
SaveStored(scan_data, test_name, test_id, now2) ==
    LET result_filename == ResultFilename(test_name, Strftime(clock), test_id)
        where == OpenDir(result_filename)
        name == BaseName(result_filename)
        written == IF Serializable(scan_data)
                   THEN ResultData(test_id, test_name, IsoFormat(now2), scan_data,
                                   result_filename)
                   ELSE Truncated(test_id, test_name, IsoFormat(now2))
    IN  /\ nsaves' = nsaves + 1
        /\ clock' = now2
        /\ issued' = issued \cup {test_id}
        /\ files' = IF present /\ where = "results"
                    THEN (name :> written) @@ files ELSE files
        /\ outside' = IF present /\ where = "parent"
                      THEN (name :> written) @@ outside ELSE outside
        /\ UNCHANGED << present, calls >>

\* what save_result returns; `given` tells whether test_id was passed or came
\* from generate_result_id
SaveReturn(scan_data, test_name, test_id, given) ==
    LET ok == SaveOk(scan_data, test_name, test_id) IN
    [NoRet EXCEPT !.op = "save", !.arg = test_name, !.given = given,
                  !.scan_data = scan_data,
                  !.status = IF ok THEN "success" ELSE "error",
                  !.message = IF ok THEN "saved" ELSE "exception",
                  !.test_id = IF ok THEN test_id ELSE << >>,
                  !.filename = IF ok THEN ResultFilename(test_name, Strftime(clock), test_id)
                               ELSE << >>]

\* save_result(scan_data, test_name, test_id)
SaveResult(scan_data, test_name, test_id, given, now2) ==
    /\ SaveStored(scan_data, test_name, test_id, now2)
    /\ ret' = SaveReturn(scan_data, test_name, test_id, given)

\* the seconds the clock may show at its next reading
Later == { t \in { clock, clock + 1 } : t <= MaxClock }

\* save_result(scan_data, test_name): uuid4 returns an id that is not in use
SaveGeneratedOf(Ps, Ns, Ts) ==
    \E scan_data \in Ps, test_name \in Ns, now2 \in Ts :
        \E test_id \in UuidUniverse \ issued :
            SaveResult(scan_data, test_name, test_id, FALSE, now2)

\* save_result(scan_data, test_name, test_id)
SaveWithIdOf(Ps, Ns, Ts, Cs) ==
    \E scan_data \in Ps, test_name \in Ns, now2 \in Ts :
        \E test_id \in Cs :
            SaveResult(scan_data, test_name, test_id, TRUE, now2)

\* load_result(result_id)
LoadOf(Ids) ==
    \E result_id \in Ids, order \in Orders(DOMAIN files) :
        LET r == LoadResult(files, order, result_id) IN
        /\ ret' = IF ~present THEN Raised("load", result_id)
                  ELSE [NoRet EXCEPT !.op = "load", !.arg = result_id,
                                     !.status = r.status, !.message = r.message,
                                     !.data = r.data]
        /\ UNCHANGED << files, outside, clock, issued, nsaves, present, calls >>

\* list_results(limit)
ListOf(Ls) ==
    \E limit \in Ls :
        LET results == ListResults(files, limit) IN
        /\ ret' = IF ~present
                  THEN [NoRet EXCEPT !.op = "list", !.limit = limit, !.status = "error",
                                     !.message = "exception"]
                  ELSE [NoRet EXCEPT !.op = "list", !.limit = limit,
                                     !.status = "success", !.count = Len(results),
                                     !.results = results]
        /\ UNCHANGED << files, outside, clock, issued, nsaves, present, calls >>

\* delete_result(result_id); ret keeps the name and the content of the file that
\* os.remove took away
DeleteOf(Ids) ==
    \E result_id \in Ids, order \in Orders(DOMAIN files) :
        LET target == DeleteTarget(files, order, result_id) IN
        /\ files' = IF target = << >> THEN files ELSE Remove(files, target[1])
        /\ ret' = IF ~present
                  THEN [NoRet EXCEPT !.op = "delete", !.arg = result_id,
                                     !.status = "error", !.message = "exception"]
                  ELSE [NoRet EXCEPT !.op = "delete", !.arg = result_id,
                                !.status = IF target = << >> THEN "error" ELSE "success",
                                !.message = IF target = << >> THEN "notfound" ELSE "deleted",
                                !.filename = IF target = << >> THEN << >> ELSE target[1],
                                !.data = IF target = << >> THEN NoData
                                         ELSE files[target[1]]]
        /\ UNCHANGED << outside, clock, issued, nsaves, present, calls >>

\* len(json_files)
TotalResults(dir) == Cardinality(JsonFiles(dir))

\* get_statistics()
Statistics ==
    /\ ret' = IF ~present
              THEN [NoRet EXCEPT !.op = "statistics", !.status = "error",
                                 !.message = "exception"]
              ELSE [NoRet EXCEPT !.op = "statistics", !.status = "success",
                                 !.total_results = TotalResults(files),
                                 !.total_size_mb = RoundMb(TotalSize(files))]
    /\ UNCHANGED << files, outside, clock, issued, nsaves, present, calls >>

\* get_result_summary(result_id)
SummaryOf(Ids) ==
    \E result_id \in Ids, order \in Orders(DOMAIN files) :
        LET result == LoadResult(files, order, result_id) IN
        /\ ret' = IF ~present THEN Raised("summary", result_id)
                  ELSE IF result.status = "error"
                  THEN [NoRet EXCEPT !.op = "summary", !.arg = result_id,
                                     !.status = "error", !.message = result.message]
                  ELSE IF SummaryRaises(result.data.scan_data)
                  THEN Raised("summary", result_id)
                  ELSE [NoRet EXCEPT !.op = "summary", !.arg = result_id,
                                     !.status = "success",
                                     !.test_id = result.data.test_id,
                                     !.test_name = result.data.test_name,
                                     !.timestamp = result.data.timestamp,
                                     !.summary = ResultSummary(result.data.scan_data)]
        /\ UNCHANGED << files, outside, clock, issued, nsaves, present, calls >>

\* another process removes the results directory with all its files
RemoveDir ==
    /\ present
    /\ present' = FALSE
    /\ files' = << >>
    /\ UNCHANGED << outside, clock, issued, nsaves, ret, calls >>

(***************************************************************************)
(* The routes of RemoteServer that take a record id, and POST /api/scan.   *)
(* Flask answers 500 when a view function raises.                          *)
(***************************************************************************)
\* the response to a request whose view function raised
ServerError(op, arg) ==
    [NoRet EXCEPT !.op = op, !.arg = arg, !.status = "error",
                  !.message = "exception", !.code = 500]

\* GET /api/scan/<test_id>
RouteGetScanResult(Ids) ==
    \E test_id \in Ids, order \in Orders(DOMAIN files) :
        LET result == LoadResult(files, order, test_id) IN
        /\ ret' = IF ~present THEN ServerError("GET /api/scan/", test_id)
                  ELSE [NoRet EXCEPT !.op = "GET /api/scan/", !.arg = test_id,
                                     !.status = result.status,
                                     !.message = result.message, !.data = result.data,
                                     !.code = IF result.status = "error" THEN 404 ELSE 200]
        /\ UNCHANGED << files, outside, clock, issued, nsaves, present, calls >>

\* GET /api/results/summary/<test_id>
RouteGetResultSummary(Ids) ==
    \E test_id \in Ids, order \in Orders(DOMAIN files) :
        LET result == LoadResult(files, order, test_id) IN
        /\ ret' = IF ~present \/ ( result.status # "error"
                                   /\ SummaryRaises(result.data.scan_data) )
                  THEN ServerError("GET /api/results/summary/", test_id)
                  ELSE IF result.status = "error"
                  THEN [NoRet EXCEPT !.op = "GET /api/results/summary/",
                                     !.arg = test_id, !.status = "error",
                                     !.message = result.message, !.code = 200]
                  ELSE [NoRet EXCEPT !.op = "GET /api/results/summary/",
                                     !.arg = test_id, !.status = "success",
                                     !.test_id = result.data.test_id,
                                     !.test_name = result.data.test_name,
                                     !.timestamp = result.data.timestamp,
                                     !.summary = ResultSummary(result.data.scan_data),
                                     !.code = 200]
        /\ UNCHANGED << files, outside, clock, issued, nsaves, present, calls >>

\* DELETE /api/results/<test_id>
RouteDeleteResult(Ids) ==
    \E test_id \in Ids, order \in Orders(DOMAIN files) :
        LET target == DeleteTarget(files, order, test_id) IN
        /\ files' = IF target = << >> THEN files ELSE Remove(files, target[1])
        /\ ret' = IF ~present
                  THEN [NoRet EXCEPT !.op = "DELETE /api/results/", !.arg = test_id,
                                     !.status = "error", !.message = "exception",
                                     !.code = 404]
                  ELSE [NoRet EXCEPT !.op = "DELETE /api/results/", !.arg = test_id,
                                !.status = IF target = << >> THEN "error" ELSE "success",
                                !.message = IF target = << >> THEN "notfound" ELSE "deleted",
                                !.filename = IF target = << >> THEN << >> ELSE target[1],
                                !.data = IF target = << >> THEN NoData
                                         ELSE files[target[1]],
                                !.code = IF target = << >> THEN 404 ELSE 200]
        /\ UNCHANGED << outside, clock, issued, nsaves, present, calls >>

\* GET /api/download/<test_id>: the record as an attachment
RouteDownloadResult(Ids) ==
    \E test_id \in Ids, order \in Orders(DOMAIN files) :
        LET result == LoadResult(files, order, test_id) IN
        /\ ret' = IF ~present THEN ServerError("GET /api/download/", test_id)
                  ELSE [NoRet EXCEPT !.op = "GET /api/download/", !.arg = test_id,
                                     !.status = result.status,
                                     !.message = result.message, !.data = result.data,
                                     !.filename =
                                        IF result.status = "error" THEN << >>
                                        ELSE ResultFilename(result.data.test_name,
                                                            Strftime(clock), test_id),
                                     !.code = IF result.status = "error" THEN 404 ELSE 200]
        /\ UNCHANGED << files, outside, clock, issued, nsaves, present, calls >>

\* POST /api/scan with {"test_name": test_name}: scan, then
\* save_result(scan_data, test_name); result.get("test_id") and
\* result.get("filename") are None (<< >>) when save_result returned an error
RouteScan(Ps, Ns, Ts) ==
    \E scan_data \in Ps, test_name \in Ns, now2 \in Ts :
        \E test_id \in UuidUniverse \ issued :
            LET result == SaveReturn(scan_data, test_name, test_id, FALSE) IN
            /\ SaveStored(scan_data, test_name, test_id, now2)
            /\ ret' = [NoRet EXCEPT !.op = "POST /api/scan", !.arg = test_name,
                                    !.scan_data = scan_data, !.status = "success",
                                    !.message = "scanned", !.test_id = result.test_id,
                                    !.filename = result.filename, !.code = 200]

(***************************************************************************)
(* RemoteClient._request: one call of requests.get, .post or .delete and   *)
(* the except clauses around it.                                           *)
(***************************************************************************)
\* the classes of the exceptions that the requests library and
\* response.json() raise, each with its base classes
ExcBases(exc) ==
    CASE exc = "ConnectionError" -> { "ConnectionError", "RequestException", "Exception" }
      [] exc = "ConnectTimeout"  ->
            { "ConnectTimeout", "ConnectionError", "Timeout", "RequestException",
              "Exception" }
      [] exc = "ReadTimeout"     -> { "ReadTimeout", "Timeout", "RequestException", "Exception" }
      [] exc = "MissingSchema"   ->
            { "MissingSchema", "RequestException", "ValueError", "Exception" }
      [] exc = "JSONDecodeError" -> { "JSONDecodeError", "ValueError", "Exception" }

\* the except clauses without the last one, `except Exception`
HandlerNoCatchAll(exc) ==
    IF "ConnectionError" \in ExcBases(exc) THEN "cannot connect"
    ELSE IF "Timeout" \in ExcBases(exc) THEN "timeout"
    ELSE "propagates"

\* the message of the first except clause that matches, in the order of the
\* clauses: ConnectionError, Timeout, Exception
Handler(exc) ==
    IF "ConnectionError" \in ExcBases(exc) THEN "cannot connect"
    ELSE IF "Timeout" \in ExcBases(exc) THEN "timeout"
    ELSE IF "Exception" \in ExcBases(exc) THEN "exception"
    ELSE "propagates"

SupportedMethods == { "GET", "POST", "DELETE" }

\* what the network and the server make of a request: a JSON body, a body
\* that is not JSON, or an exception of the requests library
NetOutcomes ==
    { "json", "not_json", "ConnectionError", "ConnectTimeout", "ReadTimeout",
      "MissingSchema" }

\* the exception a call ends with, "" if none
Fault(outcome) ==
    CASE outcome = "json"     -> ""
      [] outcome = "not_json" -> "JSONDecodeError"
      [] OTHER                -> outcome

\* _request(method, endpoint, data), the network answering with `outcome` and,
\* when that is JSON, with the mapping `body`
RequestReturn(method, endpoint, outcome, body) ==
    IF method \notin SupportedMethods
    THEN [NoRet EXCEPT !.op = "_request", !.arg = << method, endpoint >>,
                       !.status = "error", !.message = "unsupported"]
    ELSE IF Fault(outcome) = ""
    THEN [NoRet EXCEPT !.op = "_request", !.arg = << method, endpoint >>,
                       !.sent = << method, endpoint >>,
                       !.status = body.status, !.message = body.message]
    ELSE IF Handler(Fault(outcome)) = "propagates"
    THEN [Raised("_request", << method, endpoint >>) EXCEPT
                       !.sent = << method, endpoint >>, !.fault = Fault(outcome)]
    ELSE [NoRet EXCEPT !.op = "_request", !.arg = << method, endpoint >>,
                       !.sent = << method, endpoint >>, !.fault = Fault(outcome),
                       !.status = "error", !.message = Handler(Fault(outcome))]

\* the methods callers pass; RemoteClient's own callers pass the first three
ClientMethods == SupportedMethods \cup { "PUT", "get" }

\* the endpoints RemoteClient's methods ask for
Endpoints ==
    { "/api/health", "/api/scan", "/api/scan/deadbeef", "/api/results/summary/deadbeef",
      "/api/results", "/api/results/deadbeef", "/api/statistics", "/api/apis" }

\* the JSON mappings the server's routes answer with
Bodies ==
    { [status |-> "success", message |-> ""], [status |-> "error", message |-> "notfound"],
      [status |-> "healthy", message |-> ""] }

\* a call of _request
Request ==
    \E method \in ClientMethods, endpoint \in Endpoints, outcome \in NetOutcomes,
       body \in Bodies :
        /\ ret' = RequestReturn(method, endpoint, outcome, body)
        /\ UNCHANGED << files, outside, clock, issued, nsaves, present, calls >>

(***************************************************************************)
(* The operations step by step: os.listdir, then one step for each file    *)
(* the loop opens, so that calls of other threads come in between.         *)
(***************************************************************************)
\* the first index from i on whose name the loop does not pass over, 0 if none
NextAt(order, i, opens) ==
    IF \E k \in i..Len(order) : order[k] \in opens
    THEN CHOOSE k \in i..Len(order) :
            order[k] \in opens /\ \A j \in i..(k - 1) : order[j] \notin opens
    ELSE 0

NamesOf(order) == { order[k] : k \in 1..Len(order) }

\* the call of thread c returns r
Return(c, r) ==
    /\ ret' = [r EXCEPT !.caller = c, !.seen = NamesOf(calls[c].order)]
    /\ calls' = [calls EXCEPT ![c] = Idle]

\* load_result(result_id) up to os.listdir
BeginLoad(c, Ids) ==
    \E result_id \in Ids, order \in Orders(DOMAIN files) :
        /\ calls[c].op = "idle"
        /\ IF ~present
           THEN ret' = [Raised("load", result_id) EXCEPT !.caller = c] /\ UNCHANGED calls
           ELSE /\ calls' = [calls EXCEPT ![c] =
                                [Idle EXCEPT !.op = "load", !.arg = result_id,
                                             !.order = order, !.i = 1]]
                /\ UNCHANGED ret
        /\ UNCHANGED << files, outside, clock, issued, nsaves, present >>

\* load_result: the loop up to and including the next file it opens
StepLoad(c) ==
    LET call == calls[c]
        k == NextAt(call.order, call.i, { f \in NamesOf(call.order) : Matches(call.arg, f) })
        base == [NoRet EXCEPT !.op = "load", !.arg = call.arg, !.lost = call.lost]
    IN  /\ call.op = "load"
        /\ IF k = 0
           THEN Return(c, [base EXCEPT !.status = "error", !.message = "notfound"])
           ELSE LET filename == call.order[k] IN
                IF filename \notin DOMAIN files
                THEN Return(c, [base EXCEPT !.status = "error", !.message = "exception",
                                            !.lost = TRUE])
                ELSE IF ~files[filename].ok
                THEN Return(c, [base EXCEPT !.status = "error", !.message = "exception"])
                ELSE IF WrongFullId(call.arg, files[filename])
                THEN calls' = [calls EXCEPT ![c].i = k + 1] /\ UNCHANGED ret
                ELSE Return(c, [base EXCEPT !.data = files[filename]])
        /\ UNCHANGED << files, outside, clock, issued, nsaves, present >>

\* list_results(limit) up to sorted(os.listdir(...), reverse=True)
BeginList(c, Ls) ==
    \E limit \in Ls :
        /\ calls[c].op = "idle"
        /\ IF ~present
           THEN /\ ret' = [NoRet EXCEPT !.op = "list", !.limit = limit, !.caller = c,
                                        !.status = "error", !.message = "exception"]
                /\ UNCHANGED calls
           ELSE /\ calls' = [calls EXCEPT ![c] =
                                [Idle EXCEPT !.op = "list", !.limit = limit,
                                             !.order = SortedDesc(DOMAIN files), !.i = 1]]
                /\ UNCHANGED ret
        /\ UNCHANGED << files, outside, clock, issued, nsaves, present >>

\* list_results: the loop up to and including the next .json file
StepList(c) ==
    LET call == calls[c]
        k == NextAt(call.order, call.i, { f \in NamesOf(call.order) : EndsWith(f, JsonExt) })
        base == [NoRet EXCEPT !.op = "list", !.limit = call.limit, !.status = "success"]
    IN  /\ call.op = "list"
        /\ IF k = 0
           THEN Return(c, [base EXCEPT !.count = Len(call.results),
                                       !.results = call.results, !.lost = call.lost])
           ELSE LET filename == call.order[k]
                    gone == filename \notin DOMAIN files
                    results2 == IF ~gone /\ files[filename].ok
                                THEN Append(call.results, Summary(files[filename]))
                                ELSE call.results
                IN  IF LimitReached(call.limit, results2)
                    THEN Return(c, [base EXCEPT !.count = Len(results2),
                                                !.results = results2,
                                                !.lost = call.lost \/ gone])
                    ELSE /\ calls' = [calls EXCEPT ![c].i = k + 1,
                                                   ![c].results = results2,
                                                   ![c].lost = call.lost \/ gone]
                         /\ UNCHANGED ret
        /\ UNCHANGED << files, outside, clock, issued, nsaves, present >>

\* delete_result(result_id) up to os.listdir
BeginDelete(c, Ids) ==
    \E result_id \in Ids, order \in Orders(DOMAIN files) :
        /\ calls[c].op = "idle"
        /\ IF ~present
           THEN /\ ret' = [NoRet EXCEPT !.op = "delete", !.arg = result_id, !.caller = c,
                                        !.status = "error", !.message = "exception"]
                /\ UNCHANGED calls
           ELSE /\ calls' = [calls EXCEPT ![c] =
                                [Idle EXCEPT !.op = "delete", !.arg = result_id,
                                             !.order = order, !.i = 1, !.phase = "read"]]
                /\ UNCHANGED ret
        /\ UNCHANGED << files, outside, clock, issued, nsaves, present >>

\* delete_result: the loop up to and including the next file it opens; a file
\* that is gone or does not parse is taken for the one to remove
StepDeleteRead(c) ==
    LET call == calls[c]
        k == NextAt(call.order, call.i, { f \in NamesOf(call.order) : Matches(call.arg, f) })
    IN  /\ call.op = "delete" /\ call.phase = "read"
        /\ IF k = 0
           THEN Return(c, [NoRet EXCEPT !.op = "delete", !.arg = call.arg,
                                        !.status = "error", !.message = "notfound",
                                        !.lost = call.lost])
           ELSE LET filename == call.order[k] IN
                /\ calls' = IF /\ filename \in DOMAIN files
                               /\ files[filename].ok
                               /\ WrongFullId(call.arg, files[filename])
                            THEN [calls EXCEPT ![c].i = k + 1]
                            ELSE [calls EXCEPT ![c].i = k, ![c].phase = "remove",
                                               ![c].lost = filename \notin DOMAIN files]
                /\ UNCHANGED ret
        /\ UNCHANGED << files, outside, clock, issued, nsaves, present >>

\* delete_result: os.remove(filepath) and the return
StepDeleteRemove(c) ==
    LET call == calls[c]
        filename == call.order[call.i]
        base == [NoRet EXCEPT !.op = "delete", !.arg = call.arg]
    IN  /\ call.op = "delete" /\ call.phase = "remove"
        /\ IF filename \notin DOMAIN files
           THEN /\ Return(c, [base EXCEPT !.status = "error", !.message = "exception",
                                          !.lost = TRUE])
                /\ UNCHANGED files
           ELSE /\ Return(c, [base EXCEPT !.status = "success", !.message = "deleted",
                                          !.filename = filename, !.data = files[filename],
                                          !.lost = call.lost])
                /\ files' = Remove(files, filename)
        /\ UNCHANGED << outside, clock, issued, nsaves, present >>

\* the bytes of a file after `written` went to its start: a file that was
\* longer keeps its tail, and no longer parses
Overlay(old, written) ==
    IF old.size > written.size THEN [NoData EXCEPT !.size = old.size] ELSE written

\* an empty file: what open(path, 'w') makes of the file
EmptyFile == [NoData EXCEPT !.size = 0]

\* save_result(scan_data, test_name) up to open(result_path, 'w'), which
\* creates the file or cuts it to length 0
BeginSave(c, Ps, Ns, Is) ==
    \E scan_data \in Ps, test_name \in Ns, test_id \in Is \ issued :
        LET result_filename == ResultFilename(test_name, Strftime(clock), test_id)
            where == OpenDir(result_filename)
            name == BaseName(result_filename)
            written == IF Serializable(scan_data)
                       THEN ResultData(test_id, test_name, IsoFormat(clock), scan_data,
                                       result_filename)
                       ELSE Truncated(test_id, test_name, IsoFormat(clock))
            out == SaveReturn(scan_data, test_name, test_id, FALSE)
        IN  /\ calls[c].op = "idle"
            /\ nsaves' = nsaves + 1
            /\ issued' = issued \cup {test_id}
            /\ IF ~present \/ where = "missing"
               THEN ret' = [out EXCEPT !.caller = c] /\ UNCHANGED << calls, files, outside >>
               ELSE /\ calls' = [calls EXCEPT ![c] =
                                    [Idle EXCEPT !.op = "save", !.arg = name,
                                                 !.phase = where, !.data = written,
                                                 !.out = out]]
                    /\ files' = IF where = "results" THEN (name :> EmptyFile) @@ files
                                ELSE files
                    /\ outside' = IF where = "parent" THEN (name :> EmptyFile) @@ outside
                                  ELSE outside
                    /\ UNCHANGED ret
            /\ UNCHANGED << clock, present >>

\* save_result: json.dump and the close of the file, which writes the text at
\* the start of the file as it then is; a file removed meanwhile stays removed
StepSaveWrite(c) ==
    LET call == calls[c] IN
    /\ call.op = "save"
    /\ files' = IF call.phase = "results" /\ call.arg \in DOMAIN files
                THEN [files EXCEPT ![call.arg] = Overlay(files[call.arg], call.data)]
                ELSE files
    /\ outside' = IF call.phase = "parent" /\ call.arg \in DOMAIN outside
                  THEN [outside EXCEPT ![call.arg] = Overlay(outside[call.arg], call.data)]
                  ELSE outside
    /\ Return(c, call.out)
    /\ UNCHANGED << clock, issued, nsaves, present >>

\* a second passes
Tick ==
    /\ clock < MaxClock
    /\ clock' = clock + 1
    /\ UNCHANGED << files, outside, issued, nsaves, ret, present, calls >>

(***************************************************************************)
(* Spec: every operation, with every input above                           *)
(***************************************************************************)
SaveGenerated == nsaves < MaxSaves /\ SaveGeneratedOf(Payloads, Names, Later)

SaveWithId == nsaves < MaxSaves /\ SaveWithIdOf(Payloads, Names, Later, CustomIds)

Load == LoadOf(Identifiers)

List == ListOf(Limits)

Delete == DeleteOf(Identifiers)

GetSummary == SummaryOf(Identifiers)

Next ==
    SaveGenerated \/ SaveWithId \/ Load \/ List \/ Delete \/ GetSummary
    \/ Statistics \/ Tick

Spec == Init /\ [][Next]_vars

(***************************************************************************)
(* SpecStats: the directory under saves and deletes, and its statistics    *)
(***************************************************************************)
StatsSave == nsaves < MaxSaves /\ SaveGeneratedOf(Payloads, Names, {clock})

StatsDelete == DeleteOf(UuidUniverse)

NextStats == StatsSave \/ StatsDelete \/ Statistics \/ Tick

SpecStats == Init /\ [][NextStats]_vars

(***************************************************************************)
(* Properties                                                              *)
(***************************************************************************)
\* the records stored in a directory: its files that parse
Stored(dir) == { dir[f] : f \in { g \in DOMAIN dir : dir[g].ok } }

\* the outcomes load_result may have, over the enumeration orders
LoadOutcomes(dir, result_id) ==
    { LoadResult(dir, order, result_id) : order \in Orders(DOMAIN dir) }

\* C1: round trip. When save_result(P, N), called without a test_id, returned
\* success with test_id I, the load_result(I) called next returns a record with
\* scan_data = P and test_name = N.
C1_RoundTrip ==
    [][ ( /\ ret.op = "save" /\ ~ret.given /\ ret.status = "success"
          /\ ret'.op = "load" /\ ret'.arg = ret.test_id )
        => ( /\ ret'.status = ""
             /\ ret'.data.scan_data = ret.scan_data
             /\ ret'.data.test_name = ret.arg ) ]_vars

\* C2: prefix resolution. For a stored record with id I, when no other stored
\* record's id starts with I[:8], load_result(I[:8]) returns what load_result(I)
\* returns.
C2_PrefixResolution ==
    \A rec \in Stored(files) :
        ( /\ ret.op = "load"
          /\ Len(rec.test_id) > PrefixLen
          /\ ret.arg = Slice8(rec.test_id)
          /\ \A other \in Stored(files) \ {rec} :
                Slice8(other.test_id) # Slice8(rec.test_id) )
        => \A r \in LoadOutcomes(files, rec.test_id) :
                r.status = ret.status /\ r.data = ret.data

\* result_id is neither the id nor the 8-character id prefix of a record of dir
NoStoredMatch(dir, result_id) ==
    \A rec \in Stored(dir) :
        rec.test_id # result_id /\ Slice8(rec.test_id) # result_id

\* C3: not found. load_result and delete_result, called with an identifier that
\* is neither the id nor the 8-character id prefix of a stored record, return
\* status "error".
C3_NotFound ==
    [][ ( /\ ret'.op \in {"load", "delete"}
          /\ NoStoredMatch(files, ret'.arg) )
        => ret'.status = "error" ]_vars

\* C4: delete removes exactly one. When delete_result(id) returns success for the
\* id of a stored record, load_result(id) then returns an error (the claim: the
\* not-found error) and total_results is one less than before.
C4_DeleteRemovesOne ==
    [][ ( /\ ret'.op = "delete" /\ ret'.status = "success" /\ files' # files
          /\ \E rec \in Stored(files) : rec.test_id = ret'.arg )
        => ( /\ \A r \in LoadOutcomes(files', ret'.arg) : r.status = "error"
             /\ TotalResults(files') = TotalResults(files) - 1 ) ]_vars

\* C5: listing honors limit. With N records stored and a limit k < N, k = 0
\* included, list_results(limit=k) returns exactly k entries and count = k.
C5_ListHonorsLimit ==
    ( /\ ret.op = "list"
      /\ ret.limit # << >>
      /\ ret.limit[1] < Cardinality(Stored(files)) )
    => ( ret.count = ret.limit[1] /\ Len(ret.results) = ret.limit[1] )

\* the sum of the sizes of all files of a directory
ByteSum(dir) == SumOver([f \in DOMAIN dir |-> dir[f].size], DOMAIN dir)

\* m hundredths of a MiB is a nearest 2-decimal value of `bytes` bytes
NearestHundredth(m, bytes) ==
    LET d == (bytes * 100) - (m * 1024 * 1024)
    IN  2 * (IF d < 0 THEN 0 - d ELSE d) <= 1024 * 1024

\* C6: statistics consistency. get_statistics returns success, total_results is
\* the number of files in the results directory, and total_size_mb is the sum
\* of their byte sizes in MiB, rounded to 2 decimals.
C6_StatisticsConsistency ==
    ret.op = "statistics"
    => ( /\ ret.status = "success"
         /\ ret.total_results = Cardinality(DOMAIN files)
         /\ NearestHundredth(ret.total_size_mb, ByteSum(files)) )

\* get_statistics has run on a directory of two files, one of them left by a
\* failed save, whose sizes round up to 0.01 MiB
C6_Witness ==
    /\ ret.op = "statistics"
    /\ ret.total_results = 2
    /\ ret.total_size_mb = 1
    /\ \E f \in DOMAIN files : ~files[f].ok

\* C7: a saved record stays resolvable. A stored record that load_result(id)
\* returns is still returned by load_result(id), with its scan_data and
\* test_name, after a further save_result and after a delete_result called with
\* another stored record's id.
C7_StaysResolvable ==
    [][ \A rec \in Stored(files) :
          ( /\ \A r \in LoadOutcomes(files, rec.test_id) : r.data = rec
            /\ \/ ret'.op = "save"
               \/ /\ ret'.op = "delete"
                  /\ ret'.arg # rec.test_id
                  /\ \E other \in Stored(files) : other.test_id = ret'.arg )
          => \A r \in LoadOutcomes(files', rec.test_id) :
                /\ r.status = ""
                /\ r.data.scan_data = rec.scan_data
                /\ r.data.test_name = rec.test_name ]_vars

\* C8: write once. No step changes the content of a file that stays in the
\* results directory.
C8_WriteOnce ==
    [][ \A f \in (DOMAIN files) \cap (DOMAIN files') : files'[f] = files[f] ]_vars

\* C9: id uniqueness. No two stored records carry the same test_id.
C9_IdsUnique ==
    \A f, g \in DOMAIN files :
        (f # g /\ files[f].ok /\ files[g].ok) => files[f].test_id # files[g].test_id

(***************************************************************************)
(* SpecSameSecond: records saved under one name while the clock stands     *)
(***************************************************************************)
SameSecondSave == SaveGeneratedOf({ PayloadNative, PayloadTuple }, { NameDefault }, {clock})

SameSecondList == ListOf(Limits)

NextSameSecond == SameSecondSave \/ SameSecondList

SpecSameSecond == Init /\ [][NextSameSecond]_vars

\* C10: after three records were saved with the same name within the same
\* second, list_results(limit=3) returns exactly 3 entries with pairwise
\* distinct test_id.
C10_ThreeKept ==
    ( ret.op = "list" /\ ret.limit = << 3 >> /\ nsaves = 3 )
    => ( /\ ret.count = 3
         /\ \A i, j \in 1..Len(ret.results) :
                i # j => ret.results[i].test_id # ret.results[j].test_id )

(***************************************************************************)
(* SpecList: listings of a directory of records and of files that do not   *)
(* parse                                                                   *)
(***************************************************************************)
ListSave ==
    nsaves < MaxSaves
    /\ SaveGeneratedOf({ PayloadNative, PayloadBadKey }, { NameDefault }, Later)

ListList == ListOf(Limits)

NextList == ListSave \/ ListList \/ Tick

SpecList == Init /\ [][NextList]_vars

\* the names of the files of dir that end in .json and parse
WellFormed(dir) == { f \in JsonFiles(dir) : dir[f].ok }

LongPrefixes(id) == { SubSeq(id, 1, n) : n \in PrefixLen..Len(id) }

PrefixSave == nsaves < MaxSaves /\ SaveGeneratedOf({ PayloadNative }, { NameDefault }, Later)

PrefixLoad == LoadOf(UNION { LongPrefixes(u) : u \in UuidUniverse })

NextPrefix == PrefixSave \/ PrefixLoad \/ Tick

SpecPrefix == Init /\ [][NextPrefix]_vars

\* C12: any prefix of length >= 8 resolves. For a stored record with id I and
\* every prefix p of I with 8 <= len(p) <= len(I), when no other stored record
\* shares I[:8], load_result(p) returns that record.
C12_AnyPrefixResolves ==
    \A rec \in Stored(files) :
        ( /\ ret.op = "load"
          /\ ret.arg \in LongPrefixes(rec.test_id)
          /\ \A other \in Stored(files) \ {rec} :
                Slice8(other.test_id) # Slice8(rec.test_id) )
        => ( ret.status = "" /\ ret.data = rec )

\* C13: repeated delete. After delete_result(id) has succeeded for a record's
\* id, the delete_result(id) called next with the same identifier returns the
\* not-found error and removes no file.  (A second call cannot return what the
\* first returned, the file being gone: a step that leaves ret alone is not a
\* call.)
C13_RepeatedDelete ==
    [][ ( /\ ret.op = "delete" /\ ret.status = "success"
          /\ ret.data.ok /\ ret.data.test_id = ret.arg
          /\ ret' # ret /\ ret'.op = "delete" /\ ret'.arg = ret.arg )
        => ( /\ ret'.status = "error" /\ ret'.message = "notfound"
             /\ files' = files ) ]_vars

(***************************************************************************)
(* SpecIO: the six operations on a results directory that another process  *)
(* may remove                                                              *)
(***************************************************************************)
IoSave ==
    nsaves < MaxSaves
    /\ SaveGeneratedOf({ PayloadNative, PayloadBadKey }, { NameDefault }, {clock})

IoLoad == LoadOf(UuidUniverse)

IoList == ListOf({ << >> })

IoDelete == DeleteOf(UuidUniverse)

IoSummary == SummaryOf(UuidUniverse)

NextIO ==
    IoSave \/ IoLoad \/ IoList \/ IoDelete \/ IoSummary \/ Statistics \/ RemoveDir

SpecIO == Init /\ [][NextIO]_vars

\* C14: every ResultManager operation (save_result, load_result, list_results,
\* delete_result, get_result_summary, get_statistics) returns a structured value
\* and never raises, also after the results directory has been removed.
C14_NeverRaises == ~ret.raised

(***************************************************************************)
(* SpecSummary: summaries of records whose scan data lacks keys            *)
(***************************************************************************)
\* get_disk_info() when no partition could be read: {}
PayloadNoDisks == Dict(<< "str", "disk" >> :> EmptyDict)

\* a partition without its usage figures
PayloadNoTotal ==
    Dict(<< "str", "disk" >> :> Dict(<< "str", "sda" >> :> Dict(
            << "str", "fstype" >> :> Leaf("str", 4))))

\* get_disk_info() when psutil failed: {"error": str(e)}
PayloadDiskError ==
    Dict(<< "str", "disk" >> :> Dict(<< "str", "error" >> :> Leaf("str", 4)))

\* a scan with two partitions, without system and memory
PayloadScan ==
    Dict((<< "str", "cpu" >> :> Dict(
            (<< "str", "physical_cores" >> :> Leaf("int", 4))
            @@ (<< "str", "cpu_percent" >> :> Leaf("int", 12))))
         @@ (<< "str", "disk" >> :> Dict(
            (<< "str", "sda" >> :> Dict(<< "str", "total_gb" >> :> Leaf("int", 5)))
            @@ (<< "str", "sdb" >> :> Dict(<< "str", "total_gb" >> :> Leaf("int", 7))))))

SummaryPayloads ==
    { PayloadNative, PayloadNoDisks, PayloadNoTotal, PayloadDiskError, PayloadScan }

SummarySave == nsaves < MaxSaves /\ SaveGeneratedOf(SummaryPayloads, { NameDefault }, {clock})

SummaryGet == SummaryOf(UuidUniverse \cup { Nonexistent })

NextSummary == SummarySave \/ SummaryGet

SpecSummary == Init /\ [][NextSummary]_vars

\* the fields a summary reads from cpu and from memory
CpuFields == { "physical_cores", "logical_cores", "cpu_percent" }
MemoryFields == { "total_gb", "used_gb", "percent" }

Has(v, key) == << "str", key >> \in DOMAIN v.kids

\* scan_data lacks one of system, cpu, memory, disk, or one of their sub-fields
LacksKeys(scan_data) ==
    \/ \E key \in { "system", "cpu", "memory", "disk" } : ~Has(scan_data, key)
    \/ \E f \in CpuFields : ~Has(scan_data.kids[<< "str", "cpu" >>], f)
    \/ \E f \in MemoryFields : ~Has(scan_data.kids[<< "str", "memory" >>], f)
    \/ \E k \in DOMAIN scan_data.kids[<< "str", "disk" >>].kids :
          ~Has(scan_data.kids[<< "str", "disk" >>].kids[k], "total_gb")

\* no entry of scan_data's disk has a total_gb
NoDiskTotal(scan_data) ==
    Has(scan_data, "disk")
    => \A k \in DOMAIN scan_data.kids[<< "str", "disk" >>].kids :
          ~Has(scan_data.kids[<< "str", "disk" >>].kids[k], "total_gb")

\* the entry of section `sec` of a summary for field f
SummaryField(summary, sec, f) == summary.kids[<< "str", sec >>].kids[<< "str", f >>]

\* C15: get_result_summary on a stored record whose payload lacks expected
\* keys (system, cpu, memory, disk, or their sub-fields) returns status success
\* with the missing fields null/empty and, when no disk entry has a total, disk
\* total 0, without raising; on an identifier that matches no record it
\* returns the not-found error.
C15_SummaryGraceful ==
    ret.op = "summary"
    => /\ \A rec \in Stored(files) :
            ( /\ LoadOutcomes(files, ret.arg) = { [status |-> "", message |-> "", data |-> rec] }
              /\ LacksKeys(rec.scan_data) )
            => /\ ~ret.raised
               /\ ret.status = "success"
               /\ ~Has(rec.scan_data, "system")
                     => ret.summary.kids[<< "str", "system" >>] = EmptyDict
               /\ \A f \in CpuFields :
                     ( Has(rec.scan_data, "cpu")
                       => ~Has(rec.scan_data.kids[<< "str", "cpu" >>], f) )
                     => SummaryField(ret.summary, "cpu", f) = None
               /\ \A f \in MemoryFields :
                     ( Has(rec.scan_data, "memory")
                       => ~Has(rec.scan_data.kids[<< "str", "memory" >>], f) )
                     => SummaryField(ret.summary, "memory", f) = None
               /\ NoDiskTotal(rec.scan_data)
                     => SummaryField(ret.summary, "disk", "total_gb") = Leaf("int", 0)
       /\ NoStoredMatch(files, ret.arg)
            => ( ~ret.raised /\ ret.status = "error" /\ ret.message = "notfound" )

(***************************************************************************)
(* SpecHttp: requests to the routes of RemoteServer                        *)
(***************************************************************************)
\* a test_name that leads into a directory that does not exist
NameSub == << "x", "/", "x" >>

\* the ids in the URLs of the requests
HttpIds == UuidUniverse \cup { Nonexistent }

HttpScan == nsaves < MaxSaves /\ RouteScan({ PayloadScan }, { NameDefault, NameSub }, {clock})

HttpGetScanResult == RouteGetScanResult(HttpIds)

HttpGetResultSummary == RouteGetResultSummary(HttpIds)

HttpDeleteResult == RouteDeleteResult(HttpIds)

HttpDownloadResult == RouteDownloadResult(HttpIds)

NextHttp ==
    HttpScan \/ HttpGetScanResult \/ HttpGetResultSummary \/ HttpDeleteResult
    \/ HttpDownloadResult

SpecHttp == Init /\ [][NextHttp]_vars

\* the routes that take a record id
IdRoutes ==
    { "GET /api/scan/", "GET /api/results/summary/", "DELETE /api/results/",
      "GET /api/download/" }

\* C16: HTTP not-found mapping. Every endpoint that takes a record id (GET
\* /api/scan/{id}, GET /api/results/summary/{id}, DELETE /api/results/{id}, GET
\* /api/download/{id}) answers 404 when the id matches no stored record, and 200
\* only when the store operation succeeded.
C16_NotFoundIs404 ==
    [][ ( ret' # ret /\ ret'.op \in IdRoutes )
        => ( /\ NoStoredMatch(files, ret'.arg) => ret'.code = 404
             /\ ret'.code = 200 => ret'.status # "error" ) ]_vars

\* C17: POST /api/scan answers {status: "success", test_id, filename} only when
\* the store persisted the record, test_id and filename naming an existing
\* file of the results directory; when save_result returned status error, the
\* response has status "error".
C17_ScanReportsSave ==
    ( ret.op = "POST /api/scan" /\ ret.status = "success" )
    => ( /\ ret.filename \in DOMAIN files
         /\ files[ret.filename].ok
         /\ files[ret.filename].test_id = ret.test_id )

(***************************************************************************)
(* SpecClient: calls of RemoteClient._request                              *)
(***************************************************************************)
NextClient == Request

SpecClient == Init /\ [][NextClient]_vars

\* C18: RemoteClient._request never raises: on connection refusal, timeout,
\* any other exception, or an unsupported method it returns a mapping with
\* status "error" and a message, and on an unsupported method it sends no
\* request.
C18_RequestNeverRaises ==
    ret.op = "_request"
    => /\ ~ret.raised
       /\ ( ret.fault # "" \/ ret.arg[1] \notin { "GET", "POST", "DELETE" } )
            => ( ret.status = "error" /\ ret.message # "" )
       /\ ret.arg[1] \notin { "GET", "POST", "DELETE" } => ret.sent = << >>

\* a DELETE was sent and the server's answer was not JSON: response.json()
\* raised, and _request returned an error mapping
C18_Witness ==
    /\ ret.op = "_request"
    /\ ret.arg[1] = "DELETE"
    /\ ret.sent # << >>
    /\ ret.fault = "JSONDecodeError"
    /\ ret.status = "error"

\* the files of dir whose names match result_id
Matching(dir, result_id) == { f \in DOMAIN dir : Matches(result_id, f) }

\* C19: resolve tie-break. When several stored files match a short (<= 8
\* character) identifier, load_result returns the record of the matching file
\* that is greatest in lexicographic filename order, whatever the order in
\* which the directory is enumerated.
C19_TieBreak ==
    ( /\ ret.op = "load"
      /\ Len(ret.arg) <= PrefixLen
      /\ Cardinality(Matching(files, ret.arg)) >= 2
      /\ \A f \in Matching(files, ret.arg) : files[f].ok )
    => ( /\ ret.status = ""
         /\ \A f \in Matching(files, ret.arg) :
               ret.data.filename = f \/ StrLess(f, ret.data.filename) )

\* C20: delete_result and load_result select the same file. In every directory
\* state, files that do not parse included, delete_result(identifier) succeeds
\* exactly when load_result(identifier) returns a record, and the file it
\* removes is the file of that record (load_result being given the
\* enumeration order that suits best).
C20_DeleteSelectsAsLoad ==
    [][ ( ret' # ret /\ ret'.op = "delete" )
        => \E r \in LoadOutcomes(files, ret'.arg) :
              IF ret'.status = "success"
              THEN r.status = "" /\ r.data = files[ret'.filename]
              ELSE r.status = "error" ]_vars

(***************************************************************************)
(* SpecMalformed: lookups and listings of a directory in which failed      *)
(* saves have left files that do not parse                                 *)
(***************************************************************************)
MalformedSave ==
    nsaves < MaxSaves
    /\ SaveGeneratedOf({ PayloadNative, PayloadBadKey }, { NameDefault }, {clock})

MalformedLoad == LoadOf(UuidUniverse \cup { Slice8(u) : u \in UuidUniverse })

MalformedList == ListOf({ << >>, << 1 >> })

NextMalformed == MalformedSave \/ MalformedLoad \/ MalformedList

SpecMalformed == Init /\ [][NextMalformed]_vars

\* C21: malformed files. list_results skips every .json file that cannot be
\* parsed and returns status success with all well-formed records; load_result
\* returns an error for an identifier whose matching files are all malformed;
\* and a malformed file never prevents load_result(full id) from returning the
\* well-formed stored record with that id.
C21_MalformedFiles ==
    /\ ( ret.op = "list" /\ ret.limit = << >> )
         => ( /\ ret.status = "success"
              /\ { ret.results[i].filename : i \in 1..Len(ret.results) }
                    = WellFormed(files) )
    /\ ( /\ ret.op = "load"
         /\ Matching(files, ret.arg) # {}
         /\ \A f \in Matching(files, ret.arg) : ~files[f].ok )
         => ret.status = "error"
    /\ ( /\ ret.op = "load"
         /\ Len(ret.arg) > PrefixLen
         /\ \E rec \in Stored(files) : rec.test_id = ret.arg )
         => ( ret.status = "" /\ ret.data.test_id = ret.arg )

(***************************************************************************)
(* SpecRace: load_result and list_results of one thread, step by step,     *)
(* while another thread saves and deletes                                  *)
(***************************************************************************)
RaceSave == nsaves < MaxSaves /\ SaveGeneratedOf({ PayloadNative }, { NameDefault }, {clock})

RaceDelete == DeleteOf(UuidUniverse)

RaceBeginLoad == BeginLoad("t1", UuidUniverse)

RaceStepLoad == StepLoad("t1")

RaceBeginList == BeginList("t1", { << >> })

RaceStepList == StepList("t1")

NextRace ==
    RaceSave \/ RaceDelete \/ RaceBeginLoad \/ RaceStepLoad \/ RaceBeginList
    \/ RaceStepList

SpecRace == Init /\ [][NextRace]_vars

\* C22: race with delete. When a delete_result removes a file between the
\* directory enumeration of a load_result or list_results and their read of
\* that file, load_result returns an error value and list_results returns
\* status success with the records that remain; neither raises; and a
\* load_result of a record that is still present returns that record.
C22_RaceWithDelete ==
    ( ret.caller # "" /\ ret.op \in { "load", "list" } )
    => /\ ~ret.raised
       /\ ( ret.op = "load" /\ ret.lost ) => ret.status = "error"
       /\ ret.op = "list"
            => ( /\ ret.status = "success"
                 /\ \A f \in ret.seen \cap WellFormed(files) :
                       \E i \in 1..Len(ret.results) : ret.results[i].filename = f )
       /\ ( /\ ret.op = "load"
            /\ \E f \in ret.seen \cap WellFormed(files) : files[f].test_id = ret.arg )
            => ( ret.status = "" /\ ret.data.test_id = ret.arg )

(***************************************************************************)
(* SpecCollide: two threads save under one name in one second, with ids    *)
(* that share their first 8 characters                                     *)
(***************************************************************************)
CollideBegin(c) ==
    BeginSave(c, { PayloadNative, PayloadTuple }, { NameDefault }, { UuidA1, UuidA2 })

CollideBegin1 == CollideBegin("t1")

CollideBegin2 == CollideBegin("t2")

CollideWrite1 == StepSaveWrite("t1")

CollideWrite2 == StepSaveWrite("t2")

CollideLoad == LoadOf({ UuidA1, UuidA2 })

CollideList == ListOf({ << >> })

NextCollide ==
    CollideBegin1 \/ CollideBegin2 \/ CollideWrite1 \/ CollideWrite2 \/ CollideLoad
    \/ CollideList

SpecCollide == Init /\ [][NextCollide]_vars

\* no call is under way
Quiet == \A c \in Callers : calls[c].op = "idle"

\* C23: colliding saves. When two save_result calls with the same name
\* complete within the same second and their ids share the first 8
\* characters, both report status success, exactly one file exists
\* afterwards, and it holds the complete record of the write that finished
\* last, never a mixture of the two.
C23_CollidingSaves ==
    ( ret.op = "save" /\ ret.caller # "" )
    => /\ ret.status = "success"
       /\ ( Quiet /\ nsaves = 2 )
            => ( /\ DOMAIN files = { ret.filename }
                 /\ files[ret.filename].ok
                 /\ files[ret.filename].test_id = ret.test_id
                 /\ files[ret.filename].scan_data = ToJson(ret.scan_data) )

\* an isoformat() text in the form of strftime("%Y%m%d_%H%M%S"): the digits of
\* the date, "_", the digits of the time
RECURSIVE StampOf(_)
StampOf(iso) ==
    IF iso = << >> THEN << >>
    ELSE LET c == Head(iso)
             out == CASE c \in { "-", ":" } -> << >>
                      [] c = "T"            -> << "_" >>
                      [] OTHER              -> << c >>
         IN  out \o StampOf(Tail(iso))

\* name + "_" + the stored timestamp as YYYYMMDD_HHMMSS + "_" + test_id[:8] + ".json"
KeyOf(rec) ==
    rec.test_name \o << "_" >> \o StampOf(rec.timestamp) \o << "_" >>
    \o Slice8(rec.test_id) \o JsonExt

\* C24: storage key derivation. For every record written by save_result, the
\* on-disk filename, the returned filename and the stored "filename" field
\* are all equal to name + "_" + (the stored "timestamp" field formatted
\* YYYYMMDD_HHMMSS) + "_" + test_id[:8] + ".json".
C24_StorageKey ==
    /\ \A f \in WellFormed(files) :
          f = files[f].filename /\ f = KeyOf(files[f])
    /\ ( ret.op = "save" /\ ret.status = "success" /\ ret.filename \in WellFormed(files) )
         => ret.filename = KeyOf(files[ret.filename])

\* the volumes of a record's scan data: the entries of its disk mapping
Volumes(scan_data) ==
    IF Has(scan_data, "disk") THEN DOMAIN scan_data.kids[<< "str", "disk" >>].kids ELSE {}

\* the capacity of volume k, 0 if it has no total_gb
Capacity(scan_data, k) ==
    LET volume == scan_data.kids[<< "str", "disk" >>].kids[k] IN
    IF Has(volume, "total_gb") THEN volume.kids[<< "str", "total_gb" >>].n ELSE 0

EmptyId == << >>
\* text of the timestamp part of every filename
YearText == << "2", "0", "2", "6" >>

ForeignIds == { EmptyId, ShortId, YearText, Nonexistent }

ForeignSave == nsaves < MaxSaves /\ SaveGeneratedOf({ PayloadNative }, Names, {clock})

ForeignDelete == DeleteOf(ForeignIds \cup UuidUniverse)

ForeignList == ListOf({ << >> })

NextForeign == ForeignSave \/ ForeignDelete \/ ForeignList \/ Tick

SpecForeign == Init /\ [][NextForeign]_vars

\* C26: delete_result removes a file only for a matching record. When the
\* identifier (the empty string, one shorter than 8 characters, text of a
\* record's name or timestamp included) is neither the full id nor the
\* 8-character id prefix of a stored record, delete_result removes no file and
\* returns the not-found error.
C26_DeleteOnlyMatching ==
    [][ ( /\ ret' # ret /\ ret'.op = "delete"
          /\ NoStoredMatch(files, ret'.arg) )
        => ( /\ files' = files
             /\ ret'.status = "error" /\ ret'.message = "notfound" ) ]_vars

\* C27: a failed save leaves no trace. Whenever save_result returns status
\* "error", the files of the results directory and their contents are the same
\* as before the call: no empty or partially written file is left behind.
C27_FailedSaveNoTrace ==
    [][ ( ret' # ret /\ ret'.op = "save" /\ ret'.status = "error" )
        => files' = files ]_vars

(***************************************************************************)
(* SpecDeleters: two threads call delete_result, step by step, on a        *)
(* directory of saved records and of files failed saves have left           *)
(***************************************************************************)
DeletersSave ==
    nsaves < MaxSaves
    /\ SaveGeneratedOf({ PayloadNative, PayloadBadKey }, { NameDefault }, {clock})

DeletersBegin1 == BeginDelete("t1", UuidUniverse)

DeletersBegin2 == BeginDelete("t2", UuidUniverse)

DeletersRead1 == StepDeleteRead("t1")

DeletersRead2 == StepDeleteRead("t2")

DeletersRemove1 == StepDeleteRemove("t1")

DeletersRemove2 == StepDeleteRemove("t2")

NextDeleters ==
    DeletersSave \/ DeletersBegin1 \/ DeletersBegin2 \/ DeletersRead1
    \/ DeletersRead2 \/ DeletersRemove1 \/ DeletersRemove2

SpecDeleters == Init /\ [][NextDeleters]_vars

\* C28: concurrent deletes. When two delete_result calls of two threads for the
\* id of one stored record interleave in any order, exactly one returns status
\* success, the other returns an error value without raising, and exactly one
\* file is removed: once one of them has returned success for the record, the
\* other returns an error and removes nothing.
C28_ConcurrentDeletes ==
    [][ ( /\ ret.op = "delete" /\ ret.status = "success" /\ ret.caller # ""
          /\ ret.data.ok /\ ret.data.test_id = ret.arg
          /\ ret' # ret /\ ret'.op = "delete" /\ ret'.arg = ret.arg
          /\ ret'.caller # ret.caller )
        => ( /\ ~ret'.raised
             /\ ret'.status = "error"
             /\ files' = files ) ]_vars

\* the operations that only read the results directory
Reads == { "load", "list", "summary", "statistics" }

\* C29: frame of delete and reads. A delete_result call removes at most one
\* file and leaves every other file's name and content unchanged; load_result,
\* list_results, get_result_summary and get_statistics leave the directory
\* contents unchanged.
C29_Frame ==
    [][ /\ ( ret' # ret /\ ret'.op = "delete" )
              => ( /\ DOMAIN files' \subseteq DOMAIN files
                   /\ Cardinality(DOMAIN files \ DOMAIN files') <= 1
                   /\ \A f \in DOMAIN files' : files'[f] = files[f] )
        /\ ( ret' # ret /\ ret'.op \in Reads ) => files' = files ]_vars

\* a delete_result has removed a file and another file is still there
C29_Witness ==
    /\ ret.op = "delete" /\ ret.status = "success"
    /\ ret.filename \notin DOMAIN files
    /\ DOMAIN files # {}

(***************************************************************************)
(* SpecPaths: save_result and POST /api/scan with test_names that hold      *)
(* path separators                                                          *)
(***************************************************************************)
PathNames == { NameDefault, NameUp, NameSub }

PathsSave == nsaves < MaxSaves /\ SaveGeneratedOf({ PayloadNative }, PathNames, {clock})

PathsScan == nsaves < MaxSaves /\ RouteScan({ PayloadScan }, PathNames, {clock})

PathsList == ListOf({ << >> })

NextPaths == PathsSave \/ PathsScan \/ PathsList \/ Tick

SpecPaths == Init /\ [][NextPaths]_vars

\* C30: directory containment. For every test_name a caller passes (names of
\* the POST /api/scan body with path separators or ".." included), save_result
\* creates or overwrites a file only directly inside the configured results
\* directory: no file appears or changes outside it.
C30_Containment ==
    [][ ( ret' # ret /\ ret'.op \in { "save", "POST /api/scan" } )
        => outside' = outside ]_vars

====
